---- MODULE Spec2Model ----
(***************************************************************************)
(* MilitaryDB (src/military_db.py): a pandas DataFrame whose column labels *)
(* are (category, subcategory) pairs, with add_column, add_record, an      *)
(* equality filter and a value-frequency count.                            *)
(*                                                                         *)
(* The DataFrame self.df is modelled by what pandas keeps of it:           *)
(*   columns : the sequence of column labels,                              *)
(*   dtype   : the dtype of each column,                                   *)
(*   rows    : the sequence of rows, each a function label -> cell.        *)
(* A cell is a string [str |-> s], a number [num |-> n], a timestamp       *)
(* [ts |-> day number] or the missing value NA (None / NaN / NaT, the      *)
(* values pd.isna answers True for).                                       *)
(*                                                                         *)
(* Strings of the source are written in Latin transliteration.            *)
(***************************************************************************)
EXTENDS Integers, Sequences, FiniteSets, TLC

\* ---- bounds of the model ------------------------------------------------
MaxRecords == 4

\* ---- cells ----------------------------------------------------------------
NA == [na |-> TRUE]
Str(s) == [str |-> s]
Num(n) == [num |-> n]
Ts(d) == [ts |-> d]

\* pd.isna(x)
isna(x) == x = NA

\* ---- column labels --------------------------------------------------------
K_unit == <<"Sluzhba", "Boevaya chast">>
K_fio == <<"Personalnye dannye", "FIO">>
K_post == <<"Sluzhba", "Dolzhnost">>
K_birth == <<"Personalnye dannye", "Data rozhdeniya">>
K_mortgage == <<"Finansy", "Ipoteka">>
K_age == <<"Personalnye dannye", "Vozrast">>
K_contract == <<"Status", "Kontrakt">>
K_missing == <<"Ne", "Sushchestvuet">>

\* ---- helpers on sequences -------------------------------------------------
Range(s) == {s[i] : i \in 1..Len(s)}

\* the entries of s not in the set seen, in order, each once
RECURSIVE NewInOrder(_, _)
NewInOrder(s, seen) ==
    IF s = <<>> THEN <<>>
    ELSE IF Head(s) \in seen THEN NewInOrder(Tail(s), seen)
    ELSE <<Head(s)>> \o NewInOrder(Tail(s), seen \cup {Head(s)})

\* ---- dates ----------------------------------------------------------------
\* The date strings of the model and the day (since 1970-01-01) each parses to.
DateStrings == {"1990-05-20", "1988-11-02", "1985-03-15", "1995-07-01"}

ParseDate(s) ==
    CASE s = "1990-05-20" -> 7444
      [] s = "1988-11-02" -> 6880
      [] s = "1985-03-15" -> 5552
      [] s = "1995-07-01" -> 9312

\* pd.to_datetime on a cell of the seed's date column
to_datetime(x) == IF isna(x) THEN NA ELSE Ts(ParseDate(x.str))

\* pd.Timestamp.today().normalize(): the day the program is started on
\* (2026-05-20 and 2026-11-05)
Todays == {20593, 20762}

\* (today - birth).dt.days // 365
Age(today, birth) == Num((today - birth.ts) \div 365)

\* ---- the seed -------------------------------------------------------------
SeedKeys == <<K_unit, K_fio, K_post, K_birth, K_mortgage>>

SeedRow(unit, fio, post, birth, mortgage) ==
    [k \in Range(SeedKeys) |->
        CASE k = K_unit -> Str(unit)
          [] k = K_fio -> Str(fio)
          [] k = K_post -> Str(post)
          [] k = K_birth -> Str(birth)
          [] k = K_mortgage -> Str(mortgage)]

SeedData ==
    << SeedRow("Pervyi batalon", "Ivanov Ivan Ivanovich", "Serzhant", "1990-05-20", "Da"),
       SeedRow("Vtoroi batalon", "Petrov Petr Petrovich", "Leitenant", "1988-11-02", "Net"),
       SeedRow("Pervyi batalon", "Sidorov Sidor Sidorovich", "Kapitan", "1985-03-15", "Da") >>

\* a frame with the derived column left out
LoadWithoutAge(today) ==
    [columns |-> SeedKeys,
     dtype |-> [k \in Range(SeedKeys) |-> IF k = K_birth THEN "datetime64" ELSE "object"],
     rows |-> [i \in 1..Len(SeedData) |->
                 [k \in Range(SeedKeys) |->
                    IF k = K_birth THEN to_datetime(SeedData[i][k]) ELSE SeedData[i][k]]]]

load_default_data(today) ==
    LET cols == Append(SeedKeys, K_age)
        born(i) == to_datetime(SeedData[i][K_birth])
    IN [columns |-> cols,
        dtype |-> [k \in Range(cols) |->
                     CASE k = K_birth -> "datetime64"
                       [] k = K_age -> "int64"
                       [] OTHER -> "object"],
        rows |-> [i \in 1..Len(SeedData) |->
                    [k \in Range(cols) |->
                       CASE k = K_birth -> born(i)
                         [] k = K_age -> Age(today, born(i))
                         [] OTHER -> SeedData[i][k]]]]

\* ---- self.df[key] = default (add_column) ----------------------------------
\* The assignment as a fill of the cells that are missing only.
SetItemFillMissing(d, key, default) ==
    LET cols == IF key \in Range(d.columns) THEN d.columns ELSE Append(d.columns, key)
    IN [columns |-> cols,
        dtype |-> [k \in Range(cols) |-> IF k = key THEN "object" ELSE d.dtype[k]],
        rows |-> [i \in 1..Len(d.rows) |->
                    [k \in Range(cols) |->
                       IF k # key THEN d.rows[i][k]
                       ELSE IF key \in Range(d.columns) /\ ~isna(d.rows[i][k])
                            THEN d.rows[i][k] ELSE default]]]

\* The assignment as a default for rows to come: nothing written on the rows.
SetItemNoBroadcast(d, key, default) ==
    LET cols == IF key \in Range(d.columns) THEN d.columns ELSE Append(d.columns, key)
    IN [columns |-> cols,
        dtype |-> [k \in Range(cols) |-> IF k = key THEN "object" ELSE d.dtype[k]],
        rows |-> [i \in 1..Len(d.rows) |->
                    [k \in Range(cols) |->
                       IF k = key THEN NA ELSE d.rows[i][k]]]]

\* The assignment with the label always appended.
SetItemAlwaysAppend(d, key, default) ==
    LET cols == Append(d.columns, key)
    IN [columns |-> cols,
        dtype |-> [k \in Range(cols) |-> IF k = key THEN "object" ELSE d.dtype[k]],
        rows |-> [i \in 1..Len(d.rows) |->
                    [k \in Range(cols) |->
                       IF k = key THEN default ELSE d.rows[i][k]]]]

\* A scalar assigned to a column label: an existing column keeps its place and
\* has every cell replaced, a new label is appended; the column becomes an
\* object column holding the scalar in every row.
SetItem(d, key, default) ==
    LET cols == IF key \in Range(d.columns) THEN d.columns ELSE Append(d.columns, key)
    IN [columns |-> cols,
        dtype |-> [k \in Range(cols) |-> IF k = key THEN "object" ELSE d.dtype[k]],
        rows |-> [i \in 1..Len(d.rows) |->
                    [k \in Range(cols) |->
                       IF k = key THEN default ELSE d.rows[i][k]]]]

\* ---- pd.concat([self.df, pd.DataFrame([data])], ignore_index=True) ----------
\* data is the dict in its insertion order: a sequence of <<label, cell>> pairs
\* with distinct labels.
DataKeys(data) == [i \in 1..Len(data) |-> data[i][1]]

DataValue(data, k) ==
    LET i == CHOOSE j \in 1..Len(data) : data[j][1] = k IN data[i][2]

\* the one-row frame pd.DataFrame([data]): the row's own labels and cells
NewRow(data) == [k \in Range(DataKeys(data)) |-> DataValue(data, k)]

\* a missing value entering an int64 column makes it float64
Upcast(t) == IF t = "int64" THEN "float64" ELSE t

\* The dtype of column k of the result. allNaIgnored: whether this pandas
\* leaves an all-missing column out of the dtype computation (it does before
\* 3.0 and does not from 3.0 on).
ConcatDtype(d, data, k, allNaIgnored) ==
    IF k \notin Range(d.columns) THEN "object"
    ELSE IF k \notin Range(DataKeys(data)) THEN Upcast(d.dtype[k])
    ELSE IF ~isna(DataValue(data, k)) THEN "object"
    ELSE IF d.dtype[k] = "object" THEN "object"
    ELSE IF allNaIgnored THEN Upcast(d.dtype[k])
    ELSE "object"

\* The column labels of the result, the new row's unknown labels dropped.
ConcatColumnsInner(d, data) == d.columns

\* The column labels of the result: the frame's, then the new row's labels the
\* frame does not have, in the row's order (an outer join, unsorted).
ConcatColumns(d, data) == d.columns \o NewInOrder(DataKeys(data), Range(d.columns))

\* The new row placed first.
ConcatRowsPrepend(d, data) ==
    LET row == NewRow(data)
        labels == Range(d.columns) \cup DOMAIN row
    IN <<[k \in labels |-> IF k \in DOMAIN row THEN row[k] ELSE NA]>> \o
       [i \in 1..Len(d.rows) |->
          [k \in labels |-> IF k \in Range(d.columns) THEN d.rows[i][k] ELSE NA]]

\* The rows of the result: the frame's rows in order, then the new row; every
\* row is reindexed to the labels of both frames, a label it lacks reading
\* missing.
ConcatRows(d, data) ==
    LET row == NewRow(data)
        labels == Range(d.columns) \cup DOMAIN row
    IN [i \in 1..Len(d.rows) |->
          [k \in labels |-> IF k \in Range(d.columns) THEN d.rows[i][k] ELSE NA]]
       \o <<[k \in labels |-> IF k \in DOMAIN row THEN row[k] ELSE NA]>>

Concat(d, data, allNaIgnored) ==
    LET cols == ConcatColumns(d, data)
    IN [columns |-> cols,
        dtype |-> [k \in Range(cols) |-> ConcatDtype(d, data, k, allNaIgnored)],
        rows |-> ConcatRows(d, data)]

\* ---- self.df[col] == value (filter_interactive) ----------------------------
\* The comparison made on the text display() shows for the cell: an empty
\* text for a missing cell, str(x) for any other.
SeriesEqDisplayed(t, x, v) ==
    IF isna(x) THEN v = ""
    ELSE IF DOMAIN x = {"str"} THEN x.str = v
    ELSE IF DOMAIN x = {"num"} THEN ToString(x.num) = v
    ELSE FALSE

\* One cell of a column of dtype t compared with the str v. A missing cell
\* equals nothing. A datetime64 column parses v and compares timestamps (a v
\* that does not parse equals no cell); any other column compares the cell
\* with the str itself, and a number or a timestamp object is no str.
SeriesEq(t, x, v) ==
    IF isna(x) THEN FALSE
    ELSE IF t = "datetime64"
         THEN v \in DateStrings /\ x = Ts(ParseDate(v))
         ELSE x = Str(v)

\* self.df[self.df[col] == value]: the rows whose mask is True, in row order
MaskedRows(d, col, v) ==
    LET Hit(r) == SeriesEq(d.dtype[col], r[col], v)
    IN SelectSeq(d.rows, Hit)

\* ---- self.df[col].value_counts() (plot_counts) -----------------------------
\* the cells of a column, in row order
Column(d, col) == [i \in 1..Len(d.rows) |-> d.rows[i][col]]

CountOf(d, col, x) == Cardinality({i \in 1..Len(d.rows) : d.rows[i][col] = x})

\* Groups with the missing cells counted as a group of their own.
GroupsWithNa(d, col) ==
    {[value |-> x, count |-> CountOf(d, col, x)] : x \in Range(Column(d, col))}

\* One group per distinct cell that is not missing (dropna=True), with the
\* number of rows holding it.
Groups(d, col) ==
    {[value |-> x, count |-> CountOf(d, col, x)] :
        x \in {y \in Range(Column(d, col)) : ~isna(y)}}

\* sort_values(ascending=False) with the default kind "quicksort", which is
\* not a stable sort: every listing of the groups in which no count is
\* followed by a larger one; the order of groups of equal count is whatever
\* the sort of the build leaves.
RECURSIVE SortedDescending(_)
SortedDescending(G) ==
    IF G = {} THEN {<<>>}
    ELSE LET top == {g \in G : \A h \in G : h.count <= g.count}
         IN UNION {{<<g>> \o t : t \in SortedDescending(G \ {g})} : g \in top}

\* The counts value_counts() may return for a column.
value_counts(d, col) == SortedDescending(Groups(d, col))

\* ---- the last call and what it showed ----------------------------------------
NoKey == <<>>

Call(op, key, value, data) == [op |-> op, key |-> key, value |-> value, data |-> data]

Nothing == [kind |-> "none", rows |-> <<>>, counts |-> <<>>]

\* console.print("Takogo stolbtsa net", style="red")
NoSuchColumn == [kind |-> "no_column", rows |-> <<>>, counts |-> <<>>]

\* self.display(filtered)
Displayed(rows) == [kind |-> "rows", rows |-> rows, counts |-> <<>>]

\* the counts handed to counts.plot(kind="bar"); the drawing and the saving of
\* the chart are matplotlib's and are not modelled
Plotted(counts) == [kind |-> "counts", rows |-> <<>>, counts |-> counts]

\* `value or None`: an empty answer is None
OrNone(s) == IF s = "" THEN NA ELSE Str(s)

\* ---- inputs -----------------------------------------------------------------
\* the label and the default passed to add_column: new labels and a seed's
ColumnInputs ==
    { <<K_contract, Str("Da")>>, <<K_contract, Str("")>>,
      <<K_missing, Str("Da")>>, <<K_mortgage, Str("Da")>> }

\* the label and the default typed at the prompts of add_column_interactive
ColumnAnswers == { <<K_contract, "">>, <<K_mortgage, "Net">> }

\* the dict of the demonstration's add_record
DemoRecord ==
    << <<K_unit, Str("Tretii batalon")>>,
       <<K_fio, Str("Kuznetsov Konstantin Konstantinovich")>>,
       <<K_post, Str("Ryadovoi")>>,
       <<K_birth, Str("1995-07-01")>>,
       <<K_mortgage, Str("Net")>>,
       <<K_contract, Str("Net")>> >>

\* dicts passed to add_record
RecordInputs ==
    { DemoRecord,
      << <<K_birth, NA>> >>,
      << <<K_missing, Str("Da")>>, <<K_contract, Str("Da")>> >> }

\* answers typed at the prompts of add_record_interactive: one column is
\* answered, every other prompt is left empty
RecordAnswers(cols) ==
    {[k \in Range(cols) |-> IF k = a[1] THEN a[2] ELSE ""] :
        a \in {<<K_mortgage, "">>, <<K_mortgage, "Net">>}}

\* the column and the value asked of a filter
FilterInputs ==
    { <<K_unit, "Pervyi batalon">>, <<K_contract, "">>, <<K_contract, "Da">>,
      <<K_birth, "1990-05-20">>, <<K_birth, "1995-07-01">>, <<K_birth, "Da">>,
      <<K_age, "36">>, <<K_missing, "Da">> }

\* the column asked of a plot
PlotInputs == {K_mortgage, K_contract, K_missing}

\* df   : self.df
\* call : the method the menu (or the demonstration) called last, with its
\*        arguments
\* out  : what that call showed on the console or handed to the chart
VARIABLES df, call, out

vars == <<df, call, out>>

Init ==
    /\ \E today \in Todays : df = load_default_data(today)
    /\ call = Call("__init__", NoKey, NA, <<>>)
    /\ out = Nothing

\* ---- the operations ------------------------------------------------------------
add_column(category, subcategory, default) ==
    LET key == <<category, subcategory>>
    IN /\ df' = SetItem(df, key, default)
       /\ call' = Call("add_column", key, default, <<>>)
       /\ out' = Nothing

add_record(data, allNaIgnored) ==
    /\ Len(df.rows) < MaxRecords
    /\ df' = Concat(df, data, allNaIgnored)
    /\ call' = Call("add_record", NoKey, NA, data)
    /\ out' = Nothing

\* The filter with no test of the column: an unknown column shows no rows.
filter_unchecked(cat, sub, value) ==
    LET col == <<cat, sub>>
    IN /\ out' = IF col \in Range(df.columns)
                 THEN Displayed(MaskedRows(df, col, value))
                 ELSE Displayed(<<>>)
       /\ call' = Call("filter", col, Str(value), <<>>)
       /\ UNCHANGED df

filter_interactive(cat, sub, value) ==
    LET col == <<cat, sub>>
    IN /\ out' = IF col \in Range(df.columns)
                 THEN Displayed(MaskedRows(df, col, value))
                 ELSE NoSuchColumn
       /\ call' = Call("filter", col, Str(value), <<>>)
       /\ UNCHANGED df

plot_counts(category, subcategory) ==
    LET col == <<category, subcategory>>
    IN /\ IF col \notin Range(df.columns)
          THEN out' = NoSuchColumn
          ELSE \E counts \in value_counts(df, col) : out' = Plotted(counts)
       /\ call' = Call("plot_counts", col, NA, <<>>)
       /\ UNCHANGED df

add_column_interactive(cat, sub, default) ==
    add_column(cat, sub, OrNone(default))

add_record_interactive(answers, allNaIgnored) ==
    add_record([i \in 1..Len(df.columns) |-> <<df.columns[i], OrNone(answers[df.columns[i]])>>],
               allNaIgnored)

Next ==
    \/ \E c \in ColumnInputs : add_column(c[1][1], c[1][2], c[2])
    \/ \E c \in ColumnAnswers : add_column_interactive(c[1][1], c[1][2], c[2])
    \/ \E data \in RecordInputs, allNaIgnored \in BOOLEAN : add_record(data, allNaIgnored)
    \/ \E answers \in RecordAnswers(df.columns), allNaIgnored \in BOOLEAN :
          add_record_interactive(answers, allNaIgnored)
    \/ \E f \in FilterInputs : filter_interactive(f[1][1], f[1][2], f[2])
    \/ \E k \in PlotInputs : plot_counts(k[1], k[2])

Spec == Init /\ [][Next]_vars

\* ---- properties --------------------------------------------------------------
Columns == Range(df.columns)

NumRows == Len(df.rows)

LastRow == df.rows[Len(df.rows)]

IsQuery(c) == c.op \in {"filter", "plot_counts"}

NoDuplicates(s) == \A i, j \in 1..Len(s) : s[i] = s[j] => i = j

IsPrefix(s, t) == Len(s) <= Len(t) /\ \A i \in 1..Len(s) : t[i] = s[i]

\* C1: default broadcast. A step add_column(c, s, d) with (c,s) not yet a
\* column leaves every record that existed reading d at (c,s); a step
\* add_record(data) leaves the new (last) record reading, at every column the
\* table had, the value data supplies for it, and absent where data has no
\* entry for it (whatever default the column was added with).
C1_DefaultBroadcast ==
    [][ /\ (call'.op = "add_column" /\ call'.key \notin Columns) =>
              /\ Len(df'.rows) = NumRows
              /\ \A i \in 1..NumRows : df'.rows[i][call'.key] = call'.value
        /\ call'.op = "add_record" =>
              \A k \in Columns :
                 df'.rows[Len(df'.rows)][k] =
                    IF k \in Range(DataKeys(call'.data))
                    THEN DataValue(call'.data, k) ELSE NA ]_vars

\* A record added with no entry for the contract column reads absent there,
\* while the first seed record reads the broadcast default "Da".
C1_Witness ==
    /\ call.op = "add_record"
    /\ K_contract \in Columns
    /\ K_contract \notin Range(DataKeys(call.data))
    /\ isna(LastRow[K_contract])
    /\ df.rows[1][K_contract] = Str("Da")

\* C2 as stated: add_column(c, s, d) leaves every record that holds a
\* concrete value at (c,s) with that value, and every record's value at every
\* other column unchanged.
C2_KeepsConcreteValues ==
    [][ call'.op = "add_column" =>
          \A i \in 1..NumRows : \A k \in Columns :
             (k # call'.key \/ ~isna(df.rows[i][k])) =>
                 df'.rows[i][k] = df.rows[i][k] ]_vars

\* C2 amended: add_column(c, s, d) leaves every existing record reading d at
\* (c,s), the records that held a concrete value there included, and every
\* record's value at every other column unchanged.
C2_OverwritesColumn ==
    [][ call'.op = "add_column" =>
          /\ Len(df'.rows) = NumRows
          /\ \A i \in 1..NumRows :
                /\ df'.rows[i][call'.key] = call'.value
                /\ \A k \in Columns \ {call'.key} : df'.rows[i][k] = df.rows[i][k] ]_vars

\* The seed's mortgage column ("Da", "Net", "Da") re-added with the default
\* "Net": every seed record reads "Net" there.
C2_Witness ==
    /\ call.op = "add_column"
    /\ call.key = K_mortgage
    /\ call.value = Str("Net")
    /\ \A i \in 1..3 : df.rows[i][K_mortgage] = Str("Net")
    /\ df.rows[2][K_unit] = Str("Vtoroi batalon")

\* C3: the schema is append-only and duplicate-free. No column label occurs
\* twice; every step keeps the columns it found, in their places, as a prefix
\* of the new column sequence (nothing removed, renamed or reordered);
\* add_column with a new label appends it at the end, add_column with a label
\* already present leaves the sequence unchanged.
C3_SchemaAppendOnly ==
    [][ /\ NoDuplicates(df.columns)
        /\ NoDuplicates(df'.columns)
        /\ IsPrefix(df.columns, df'.columns)
        /\ call'.op = "add_column" =>
              df'.columns = IF call'.key \in Columns THEN df.columns
                            ELSE Append(df.columns, call'.key) ]_vars

\* Two labels added by add_column stand after the seed's columns in call
\* order, and a seed label has just been re-added without moving.
C3_Witness ==
    /\ call.op = "add_column"
    /\ call.key = K_mortgage
    /\ df.columns = <<K_unit, K_fio, K_post, K_birth, K_mortgage, K_age, K_missing, K_contract>>

\* the records holding, at column col, a value that is present and equal to x
EqualRows(d, col, x) ==
    LET Hit(r) == ~isna(r[col]) /\ r[col] = x
    IN SelectSeq(d.rows, Hit)

\* C4 as stated: the filter on a known column shows exactly the records, in
\* record order, whose value there is present and equal to the target.
C4_FilterExact ==
    (call.op = "filter" /\ call.key \in Columns) =>
        /\ out.kind = "rows"
        /\ out.rows = EqualRows(df, call.key, call.value)

\* the records the target matches: those holding the target text itself, and,
\* in a column of datetime type, those holding the timestamp it parses to
MatchingRows(d, col, v) ==
    LET Hit(r) ==
            /\ ~isna(r[col])
            /\ \/ r[col] = Str(v)
               \/ /\ d.dtype[col] = "datetime64"
                  /\ v \in DateStrings
                  /\ r[col] = Ts(ParseDate(v))
    IN SelectSeq(d.rows, Hit)

\* C4 amended: the filter on a known column shows exactly the records, in
\* record order, whose value there is present and is the target text, or, as
\* long as the column keeps the datetime type the load gives the birth-date
\* column, is the timestamp the target text parses to; a record whose value is
\* absent is shown for no target.
C4_FilterMatches ==
    (call.op = "filter" /\ call.key \in Columns) =>
        /\ out.kind = "rows"
        /\ out.rows = MatchingRows(df, call.key, call.value.str)
        /\ \A i \in 1..Len(out.rows) : ~isna(out.rows[i][call.key])

\* The empty target on the contract column: one record holds the empty text
\* and is shown, another is absent there and is not.
C4_Witness ==
    /\ call.op = "filter"
    /\ call.key = K_contract
    /\ call.value = Str("")
    /\ K_contract \in Columns
    /\ Len(out.rows) >= 1
    /\ \E i \in 1..NumRows : isna(df.rows[i][K_contract])

\* C5: a filter or a count on a label that is not a column ends in "no such
\* column", and on a column it never does: the filter then shows rows (maybe
\* none) and the count shows counts; either way the table is left as it was.
C5_UnknownColumn ==
    [][ IsQuery(call') =>
          /\ df' = df
          /\ (call'.key \notin Columns) => out' = NoSuchColumn
          /\ (call'.key \in Columns /\ call'.op = "filter") => out'.kind = "rows"
          /\ (call'.key \in Columns /\ call'.op = "plot_counts") => out'.kind = "counts" ]_vars

\* A filter on a label never added ended in "no such column".
C5_Witness ==
    /\ call.op = "filter"
    /\ call.key = K_missing
    /\ K_missing \notin Columns
    /\ out = NoSuchColumn

\* the row of the first record holding x at column col
FirstSeen(d, col, x) ==
    CHOOSE i \in 1..Len(d.rows) :
        /\ d.rows[i][col] = x
        /\ \A j \in 1..(i - 1) : d.rows[j][col] # x

\* every listing of a set of groups, in any order
RECURSIVE AnyOrder(_)
AnyOrder(G) ==
    IF G = {} THEN {<<>>}
    ELSE UNION {{<<g>> \o t : t \in AnyOrder(G \ {g})} : g \in G}

\* the groups in descending count order, equal counts in first-seen order
FirstSeenOrder(d, col) ==
    CHOOSE s \in AnyOrder(Groups(d, col)) :
        \A i, j \in 1..Len(s) :
            i < j => \/ s[i].count > s[j].count
                     \/ /\ s[i].count = s[j].count
                        /\ FirstSeen(d, col, s[i].value) < FirstSeen(d, col, s[j].value)

C7_RecordOrder ==
    [][ /\ call'.op = "add_record" =>
              /\ Len(df'.rows) = NumRows + 1
              /\ \A i \in 1..NumRows : \A k \in Columns : df'.rows[i][k] = df.rows[i][k]
              /\ \A k \in Range(DataKeys(call'.data)) :
                    df'.rows[NumRows + 1][k] = DataValue(call'.data, k)
        /\ call'.op = "add_column" =>
              /\ Len(df'.rows) = NumRows
              /\ \A i \in 1..NumRows : \A k \in Columns \ {call'.key} :
                    df'.rows[i][k] = df.rows[i][k]
        /\ IsQuery(call') => df'.rows = df.rows
        /\ Len(df'.rows) >= NumRows ]_vars

\* The demonstration's record has been added and stands fourth, after the
\* three seed records in their order.
C7_Witness ==
    /\ call.op = "add_record"
    /\ NumRows = 4
    /\ df.rows[4][K_fio] = Str("Kuznetsov Konstantin Konstantinovich")
    /\ df.rows[1][K_fio] = Str("Ivanov Ivan Ivanovich")
    /\ df.rows[2][K_fio] = Str("Petrov Petr Petrovich")
    /\ df.rows[3][K_fio] = Str("Sidorov Sidor Sidorovich")

\* C8: invariant I1. The labels at which a record holds a value are all
\* columns of the table.
C8_RecordKeysAreColumns ==
    \A i \in 1..NumRows :
        {k \in DOMAIN df.rows[i] : ~isna(df.rows[i][k])} \subseteq Columns

\* A record was added with a value under a label that was no column.
C8_Witness ==
    /\ call.op = "add_record"
    /\ call.data[1][1] = K_missing
    /\ LastRow[K_missing] = Str("Da")
    /\ \A i \in 1..3 : isna(df.rows[i][K_missing])

\* C9 as stated: the column sequence changes only in an add_column step.
C9_OnlyAddColumnAddsColumns ==
    [][ call'.op # "add_column" => df'.columns = df.columns ]_vars

\* C9 amended: a filter or a count leaves the column sequence unchanged;
\* add_record leaves it unchanged when every label of its mapping is a column
\* (as with add_record_interactive, which asks for the columns only) and
\* otherwise appends the mapping's labels that are no columns, in the
\* mapping's order; the column sequence changes only in an add_column step or
\* in such an add_record step.
C9_ColumnsAddedByUnknownKeys ==
    [][ /\ IsQuery(call') => df'.columns = df.columns
        /\ call'.op = "add_record" =>
              LET keys == DataKeys(call'.data)
                  unknown == SelectSeq(keys, LAMBDA k : k \notin Columns)
              IN df'.columns = df.columns \o unknown
        /\ df'.columns # df.columns =>
              \/ call'.op = "add_column"
              \/ /\ call'.op = "add_record"
                 /\ \E k \in Range(DataKeys(call'.data)) : k \notin Columns ]_vars

\* An add_record with two labels that were no columns: both now are, in the
\* mapping's order, after the seed's.
C9_Witness ==
    /\ call.op = "add_record"
    /\ DataKeys(call.data) = <<K_missing, K_contract>>
    /\ df.columns = <<K_unit, K_fio, K_post, K_birth, K_mortgage, K_age, K_missing, K_contract>>
    /\ isna(df.rows[1][K_contract])

\* C10 as stated: a fresh table holds exactly 3 records and exactly 5
\* columns, the derived age among them, every seed value present.
C10_FiveColumns ==
    call.op = "__init__" =>
        /\ NumRows = 3
        /\ Len(df.columns) = 5
        /\ K_age \in Columns
        /\ \A i \in 1..NumRows : \A k \in Columns : ~isna(df.rows[i][k])

\* C10 amended: a fresh table holds exactly 3 records and exactly 6 columns
\* (the seed's five and the derived age); the age of each record is the
\* number of whole 365-day spans from its birth date to the day of the load;
\* every seed record has a present value at every column.
C10_SixColumns ==
    call.op = "__init__" =>
        /\ NumRows = 3
        /\ Len(df.columns) = 6
        /\ Cardinality(Columns) = 6
        /\ K_age \in Columns
        /\ K_birth \in Columns
        /\ \E today \in Todays : \A i \in 1..NumRows :
              LET days == today - df.rows[i][K_birth].ts
              IN \E n \in 0..200 :
                    /\ df.rows[i][K_age] = Num(n)
                    /\ 365 * n <= days
                    /\ days < 365 * (n + 1)
        /\ \A i \in 1..NumRows : \A k \in Columns : ~isna(df.rows[i][k])

\* The fresh table of a load on 2026-05-20: the second seed record, born
\* 1988-11-02, is 37.
C10_Witness ==
    /\ call.op = "__init__"
    /\ df.rows[2][K_birth] = Ts(6880)
    /\ df.rows[2][K_age] = Num(37)
====
